---------------------------- MODULE Spec2Model ----------------------------
(***************************************************************************)
(* Event and intent dispatch layer of mycroft-core                         *)
(* (src/mycroft-core/mycroft/skills/core.py): the add_event wrapper, the   *)
(* intent registration calls, the shared fallback registry with its        *)
(* dispatcher, and skill shutdown.                                         *)
(*                                                                         *)
(* Conventions.                                                            *)
(*  - A Python string is a sequence of tokens, so that '+' is \o and       *)
(*    str.replace / 'in' work on tokens; '.entity' is one token.           *)
(*  - A bus message is [type |-> ..., data |-> <record>]; a key of the     *)
(*    payload dict is a field of data, a missing key a missing field.      *)
(*  - trace holds, in order, what the most recent call on a skill did that *)
(*    is visible outside it: messages published, handler bodies entered,   *)
(*    settings.store() calls.  pass_trace does the same for the fallback   *)
(*    dispatcher.  raised is the exception that left the most recent call. *)
(*  - The bus client, the settings store and adapt's Intent classes are    *)
(*    collaborators: on/remove add and delete a listener, emit and store   *)
(*    do not raise, IntentBuilder.build() returns a new Intent.            *)
(*  - Handlers are Python functions or bound methods (they have __name__). *)
(***************************************************************************)
EXTENDS Integers, Sequences, FiniteSets, TLC

VARIABLES
    lifecycle,                  \* per skill: position in load_skill / shutdown
    skill_id,                   \* per skill: self.skill_id
    vocab_dir,                  \* per skill: self.vocab_dir (None until load_vocab_files)
    events,                     \* per skill: self.events, a list or None
    registered_intents,         \* per skill: self.registered_intents
    instance_fallback_handlers, \* per skill: self.instance_fallback_handlers
    is_alive,                   \* per skill: self.settings.is_alive
    wrappers_made,              \* per skill: number of wrapper closures created so far
    intent_heap,                \* adapt Intent objects: object id -> its .name
    subscriptions,              \* the bus: set of <<event name, wrapper>> listeners
    fallback_handlers,          \* FallbackSkill.fallback_handlers: priority -> handler
    fallback_owner,             \* history: priority -> the instance whose call stored it
    pass,                       \* the fallback dispatcher's frame (one pass at a time)
    pass_trace,                 \* what the current / last dispatch pass did
    trace,                      \* what the current / last skill call did
    raised,                     \* exception that left the last skill call, or NoException
    last_op,                    \* history: the last skill call and its arguments
    threads,                    \* per bus thread: the wrapper frame it is running
    _intent_list,               \* the module-global _intent_list of the decorators
    decorated_next              \* _register_decorated: index of the pair it is at

vars == <<lifecycle, skill_id, vocab_dir, events, registered_intents,
          instance_fallback_handlers, is_alive, wrappers_made, intent_heap,
          subscriptions, fallback_handlers, fallback_owner, pass, pass_trace,
          trace, raised, last_op, threads, _intent_list, decorated_next>>

decorator_vars == <<_intent_list, decorated_next>>

skill_vars == <<lifecycle, skill_id, vocab_dir, events, registered_intents,
                is_alive, wrappers_made, intent_heap, subscriptions,
                decorator_vars>>

fallback_vars == <<instance_fallback_handlers, fallback_handlers, fallback_owner>>

-----------------------------------------------------------------------------
(* Bounds of the model *)

\* at most this many entries in the shared fallback registry
MaxFallbacks == 3

\* at most this many wrappers are created per skill instance
MaxEvents == 3

\* at most this many Intent objects exist
MaxIntents == 2

-----------------------------------------------------------------------------
(* Values *)

Skills == {"s1", "s2"}

None == "None"
NoException == "no exception"
NoOwner == "no __self__"

\* None where a handler is expected
NoneHandler == [func |-> None]

\* self.name of a skill instance
SkillName(s) == s

\* the id load_skill assigns to each skill (its third argument)
AssignedId(s) == IF s = "s1" THEN 1 ELSE 2

Digits == <<"0", "1", "2", "3", "4", "5", "6", "7", "8", "9">>

\* str(n) for a non-negative integer: its decimal digits
RECURSIVE Str(_)
Str(n) == IF n < 10 THEN <<Digits[n + 1]>>
          ELSE Str(n \div 10) \o <<Digits[(n % 10) + 1]>>

Message(type, data) == [type |-> type, data |-> data]

EmitEv(type, data) == [ev |-> "emit", msg |-> Message(type, data)]
CallEv(handler, args, outcome) ==
    [ev |-> "call", handler |-> handler, args |-> args, outcome |-> outcome]
StoreEv(s) == [ev |-> "store", skill |-> s]
\* a fallback handler entered by the dispatcher, with the priority it is
\* stored under
PassCallEv(priority, handler, outcome) ==
    [ev |-> "call", prio |-> priority, handler |-> handler,
     args |-> <<"message">>, outcome |-> outcome]

\* the messages a trace published, in order
Emitted(t) ==
    LET E == SelectSeq(t, LAMBDA e : e.ev = "emit")
    IN  [i \in 1..Len(E) |-> E[i].msg]

\* the messages of one type among those a trace published
OfType(t, type) == SelectSeq(Emitted(t), LAMBDA m : m.type = type)

\* the handler bodies a trace entered
Calls(t) == SelectSeq(t, LAMBDA e : e.ev = "call")

\* get_handler_name: '<owner name>.' + __name__ for a bound method of an object
\* that has a name, else __name__
get_handler_name(handler) ==
    IF handler.owner # NoOwner
    THEN <<SkillName(handler.owner), ".", handler.func>>
    ELSE <<handler.func>>

-----------------------------------------------------------------------------
(* Fallback chain *)

\* the priorities skills ask for
ReqPriorities == {10, 50}

\* a fallback handler: a bound method of the skill, or a module-level
\* function that several skills may register (equal wherever it is used)
FallbackHandlersOf(s) ==
    { [owner |-> s, func |-> "handle_fallback"],
      [owner |-> NoOwner, func |-> "shared_fallback"] }

AllFallbackHandlers == UNION { FallbackHandlersOf(s) : s \in Skills }

\* what a call of a fallback handler does: return a true value, return a
\* false value (or None), raise an Exception
FallbackOutcomes == {"true", "false", "raise"}

Restrict(f, S) == [x \in S |-> f[x]]

\* mutant of FreeSlot: an 'if' where the code has a 'while'
FreeSlotProbedOnce(fh, priority) ==
    IF priority \in DOMAIN fh THEN priority + 1 ELSE priority

\* FallbackSkill._register_fallback, lines 762-763: the first priority at or
\* above the requested one that is not a key of the registry
RECURSIVE FreeSlot(_, _)
FreeSlot(fh, priority) ==
    IF priority \in DOMAIN fh THEN FreeSlot(fh, priority + 1) ELSE priority

\* FallbackSkill._register_fallback: the registry after the call
_register_fallback(fh, handler, priority) ==
    LET q == FreeSlot(fh, priority)
    IN  [p \in (DOMAIN fh) \cup {q} |-> IF p = q THEN handler ELSE fh[p]]

\* mutant of remove_fallback: no 'return' after the del, every match goes
RemoveEveryMatch(fh, handler_to_del) ==
    { Restrict(fh, { p \in DOMAIN fh : fh[p] # handler_to_del }) }

\* FallbackSkill.remove_fallback: the registries the call may leave.  The loop
\* deletes the first entry, in the dict's iteration order, whose handler
\* equals handler_to_del; that order is not fixed by the keys, so any
\* matching entry may be the one.  No match: a warning, nothing changes.
remove_fallback(fh, handler_to_del) ==
    LET match == { p \in DOMAIN fh : fh[p] = handler_to_del }
    IN  IF match = {} THEN {fh}
        ELSE { Restrict(fh, (DOMAIN fh) \ {p}) : p \in match }

\* FallbackSkill.remove_instance_handlers: pop the instance's list from its
\* end, remove_fallback each handler; the registries the loop may leave
RECURSIVE remove_instance_handlers(_, _)
remove_instance_handlers(fh, handlers) ==
    IF handlers = <<>> THEN {fh}
    ELSE LET handler == handlers[Len(handlers)]
             rest == SubSeq(handlers, 1, Len(handlers) - 1)
         IN  UNION { remove_instance_handlers(g, rest) :
                        g \in remove_fallback(fh, handler) }

\* mutant of SortedItems: the items by descending priority
RECURSIVE ItemsDescending(_)
ItemsDescending(fh) ==
    IF DOMAIN fh = {} THEN <<>>
    ELSE LET hi == CHOOSE p \in DOMAIN fh : \A q \in DOMAIN fh : p >= q
         IN  <<<<hi, fh[hi]>>>> \o ItemsDescending(Restrict(fh, (DOMAIN fh) \ {hi}))

\* sorted(cls.fallback_handlers.items(), key=operator.itemgetter(0)):
\* the <<priority, handler>> pairs by ascending priority
RECURSIVE SortedItems(_)
SortedItems(fh) ==
    IF DOMAIN fh = {} THEN <<>>
    ELSE LET lo == CHOOSE p \in DOMAIN fh : \A q \in DOMAIN fh : p <= q
         IN  <<<<lo, fh[lo]>>>> \o SortedItems(Restrict(fh, (DOMAIN fh) \ {lo}))

IdlePass == [pc |-> "idle", items |-> <<>>, idx |-> 1, registry |-> <<>>,
             raised |-> NoException]

\* make_intent_failure_handler.handler, lines 727-730: publish handler.start
\* and take the sorted copy of the registry that the loop walks
FallbackStartResult(fh) ==
    [pass  |-> [pc |-> "running", items |-> SortedItems(fh), idx |-> 1,
                registry |-> fh, raised |-> NoException],
     trace |-> << EmitEv("mycroft.skill.handler.start",
                         [handler |-> <<"fallback">>]) >>]

\* mutant of FallbackTryResult: no 'return' after the handler.complete
FallbackTryNoReturn(p, t, outcome) ==
    LET item == p.items[p.idx]
        called == Append(t, PassCallEv(item[1], item[2], outcome))
    IN  [pass  |-> [p EXCEPT !.idx = p.idx + 1],
         trace |-> IF outcome = "true"
                   THEN Append(called,
                          EmitEv("mycroft.skill.handler.complete",
                                 [handler |-> <<"fallback">>,
                                  fallback_handler |-> get_handler_name(item[2])]))
                   ELSE called]

\* mutant of FallbackTryResult: no try/except around the call
FallbackTryNoExcept(p, t, outcome) ==
    LET item == p.items[p.idx]
        called == Append(t, PassCallEv(item[1], item[2], outcome))
    IN  IF outcome = "true"
        THEN [pass  |-> [p EXCEPT !.pc = "done"],
              trace |-> Append(called,
                          EmitEv("mycroft.skill.handler.complete",
                                 [handler |-> <<"fallback">>,
                                  fallback_handler |-> get_handler_name(item[2])]))]
        ELSE IF outcome = "raise"
        THEN [pass |-> [p EXCEPT !.pc = "done", !.raised = "Exception"],
              trace |-> called]
        ELSE [pass |-> [p EXCEPT !.idx = p.idx + 1], trace |-> called]

\* mutant of FallbackTryResult: the loop indexes the registry as it is now,
\* not the sorted copy
FallbackTryLive(p, t, outcome) ==
    LET live == SortedItems(fallback_handlers)
    IN  IF p.idx > Len(live)
        THEN [pass |-> [p EXCEPT !.idx = p.idx + 1], trace |-> t]
        ELSE LET item == live[p.idx]
                 called == Append(t, PassCallEv(item[1], item[2], outcome))
             IN  IF outcome = "true"
                 THEN [pass  |-> [p EXCEPT !.pc = "done"],
                       trace |-> Append(called,
                                   EmitEv("mycroft.skill.handler.complete",
                                          [handler |-> <<"fallback">>,
                                           fallback_handler |->
                                               get_handler_name(item[2])]))]
                 ELSE [pass |-> [p EXCEPT !.idx = p.idx + 1], trace |-> called]

\* make_intent_failure_handler.handler, lines 731-741: one turn of the loop.
\* A true result publishes handler.complete naming the handler and returns;
\* an Exception is caught and logged and the loop goes on.
FallbackTryResult(p, t, outcome) ==
    LET item == p.items[p.idx]
        called == Append(t, PassCallEv(item[1], item[2], outcome))
    IN  IF outcome = "true"
        THEN [pass  |-> [p EXCEPT !.pc = "done"],
              trace |-> Append(called,
                          EmitEv("mycroft.skill.handler.complete",
                                 [handler |-> <<"fallback">>,
                                  fallback_handler |-> get_handler_name(item[2])]))]
        ELSE [pass |-> [p EXCEPT !.idx = p.idx + 1], trace |-> called]

\* make_intent_failure_handler.handler, lines 742-748: the loop ended without
\* a return
FallbackExhaustedResult(p, t) ==
    [pass  |-> [p EXCEPT !.pc = "done"],
     trace |-> t \o << EmitEv("complete_intent_failure", [none |-> None]),
                       EmitEv("mycroft.skill.handler.complete",
                              [handler |-> <<"fallback">>,
                               exception |-> <<"No fallback could handle intent.">>]) >>]

\* the bus delivers an intent_failure message to the dispatcher
FallbackStart ==
    /\ pass.pc # "running"
    /\ LET r == FallbackStartResult(fallback_handlers)
       IN  pass' = r.pass /\ pass_trace' = r.trace
    /\ trace' = <<>>
    /\ raised' = NoException
    /\ last_op' = [op |-> "intent_failure"]
    /\ UNCHANGED <<skill_vars, fallback_vars, threads>>

FallbackTry ==
    /\ pass.pc = "running"
    /\ pass.idx <= Len(pass.items)
    /\ \E outcome \in FallbackOutcomes :
          LET r == FallbackTryResult(pass, pass_trace, outcome)
          IN  pass' = r.pass /\ pass_trace' = r.trace
    /\ UNCHANGED <<skill_vars, fallback_vars, trace, raised, last_op, threads>>

FallbackExhausted ==
    /\ pass.pc = "running"
    /\ pass.idx > Len(pass.items)
    /\ LET r == FallbackExhaustedResult(pass, pass_trace)
       IN  pass' = r.pass /\ pass_trace' = r.trace
    /\ UNCHANGED <<skill_vars, fallback_vars, trace, raised, last_op, threads>>

\* FallbackSkill.register_fallback
register_fallback(s, handler, priority) ==
    /\ lifecycle[s] \in {"initializing", "active"}
    /\ Cardinality(DOMAIN fallback_handlers) < MaxFallbacks
    /\ Len(instance_fallback_handlers[s]) < MaxFallbacks
    /\ instance_fallback_handlers' =
          [instance_fallback_handlers EXCEPT ![s] = Append(@, handler)]
    /\ fallback_handlers' = _register_fallback(fallback_handlers, handler, priority)
    /\ fallback_owner' =
          [p \in DOMAIN fallback_handlers' |->
              IF p \in DOMAIN fallback_handlers THEN fallback_owner[p] ELSE s]
    /\ trace' = <<>>
    /\ raised' = NoException
    /\ last_op' = [op |-> "register_fallback", skill |-> s, handler |-> handler,
                   priority |-> priority, before |-> fallback_handlers]
    /\ UNCHANGED <<skill_vars>>

\* FallbackSkill.remove_fallback called on its own (it is a classmethod); the
\* instance's list is not touched
RemoveFallbackCall(s, handler) ==
    /\ lifecycle[s] \in {"initializing", "active"}
    /\ \E fh \in remove_fallback(fallback_handlers, handler) :
          /\ fallback_handlers' = fh
          /\ fallback_owner' = Restrict(fallback_owner, DOMAIN fh)
    /\ trace' = <<>>
    /\ raised' = NoException
    /\ last_op' = [op |-> "remove_fallback", skill |-> s, handler |-> handler,
                   before |-> fallback_handlers]
    /\ UNCHANGED <<skill_vars, instance_fallback_handlers>>

-----------------------------------------------------------------------------
(* Event binder *)

Range(seq) == { seq[i] : i \in 1..Len(seq) }

\* the closure add_event creates: each call makes a new function object
Wrapper(s, n, handler, need_self) ==
    [id |-> <<s, n>>, skill |-> s, handler |-> handler, need_self |-> need_self]

\* MycroftSkill.__handle_stop as the bound method bind() registers
StopHandler(s) ==
    [owner |-> s, func |-> "__handle_stop", argspec |-> 2, accepts |-> {1},
     body |-> "handle_stop"]

\* mutant of add_event: the wrapper is subscribed but not recorded
add_event_unrecorded(st, s, name, handler, need_self) ==
    IF handler = NoneHandler THEN st
    ELSE LET w == Wrapper(s, st.made + 1, handler, need_self)
         IN  [st EXCEPT !.subs = @ \cup {<<name, w>>}, !.made = @ + 1]

\* MycroftSkill.add_event, lines 380-382, on the part of the state it reads
\* and writes, st = [subs, events, made, raised]: with a handler, subscribe a
\* new wrapper and append it to self.events.  When self.events is None the
\* append raises after the wrapper was subscribed.
add_event(st, s, name, handler, need_self) ==
    IF handler = NoneHandler THEN st
    ELSE LET w == Wrapper(s, st.made + 1, handler, need_self)
             on == [st EXCEPT !.subs = @ \cup {<<name, w>>}, !.made = @ + 1]
         IN  IF st.events = None
             THEN [on EXCEPT !.raised = "AttributeError"]
             ELSE [on EXCEPT !.events = Append(@, <<name, w>>)]

\* the part of the state add_event works on, for skill s
BinderState(s) ==
    [subs |-> subscriptions, events |-> events[s], made |-> wrappers_made[s],
     raised |-> NoException]

\* store what add_event left
SetBinderState(s, st) ==
    /\ subscriptions' = st.subs
    /\ events' = [events EXCEPT ![s] = st.events]
    /\ wrappers_made' = [wrappers_made EXCEPT ![s] = st.made]
    /\ raised' = st.raised

\* str(self.skill_id) + ':' + name  (_unique_name, and inline in the
\* registration calls)
_unique_name(s, name) == Str(skill_id[s]) \o <<":">> \o name

\* a skill makes its registration calls once load_skill has bound it and
\* given it its data files: from its initialize() or while it is active.
\* Nothing in the methods tests it; it is what well-behaved skills do.
CanRegister(s) == lifecycle[s] \in {"initializing", "active"}

\* a direct self.add_event(name, handler, need_self)
AddEvent(s, name, handler, need_self) ==
    /\ wrappers_made[s] < MaxEvents
    /\ SetBinderState(s, add_event(BinderState(s), s, name, handler, need_self))
    /\ trace' = <<>>
    /\ last_op' = [op |-> "add_event", skill |-> s, name |-> name]
    /\ UNCHANGED <<lifecycle, skill_id, vocab_dir, registered_intents, is_alive,
                   intent_heap, fallback_vars>>

-----------------------------------------------------------------------------
(* Intent registry *)

\* the skill-local names used for intents, files and scheduled events
LocalNames == { <<"a">>, <<"b">> }

\* the handler a skill hands to the registration calls: a bound method
\* taking (self, message)
UserHandler(s) ==
    [owner |-> s, func |-> "handle", argspec |-> 2, accepts |-> {1},
     body |-> "user"]

\* what register_intent may be given.  kind is the object's exact type:
\* IntentBuilder, Intent, or anything else (a subclass, a dict, a string).
\* obj is the Intent object passed, 0 for an object made for this call
\* (named name); an IntentBuilder is always built into a new Intent.
Descriptor(kind, obj, name) == [kind |-> kind, obj |-> obj, name |-> name]

\* mutant of IntentParserAccepted: no type test
AnyDescriptorAccepted(desc) == TRUE

\* register_intent, lines 396-399: the type test
IntentParserAccepted(desc) == desc.kind \in {"IntentBuilder", "Intent"}

\* MycroftSkill.register_intent
register_intent(s, desc, handler, need_self) ==
    IF ~IntentParserAccepted(desc)
    THEN /\ raised' = "ValueError"
         /\ trace' = <<>>
         /\ UNCHANGED <<intent_heap, registered_intents, subscriptions, events,
                        wrappers_made>>
    ELSE LET obj == IF desc.obj = 0 THEN Len(intent_heap) + 1 ELSE desc.obj
             heap == IF desc.obj = 0 THEN Append(intent_heap, desc.name)
                     ELSE intent_heap
             name == heap[obj]
             unique == _unique_name(s, name)
         IN  /\ intent_heap' = [heap EXCEPT ![obj] = unique]
             /\ trace' = << EmitEv("register_intent", [name |-> unique]) >>
             /\ registered_intents' =
                   [registered_intents EXCEPT ![s] = Append(@, <<name, obj>>)]
             /\ SetBinderState(s, add_event(BinderState(s), s, unique, handler,
                                            need_self))

RegisterIntent(s, desc, handler, need_self) ==
    /\ wrappers_made[s] < MaxEvents
    /\ Len(registered_intents[s]) < MaxIntents
    /\ (desc.kind # "other" /\ desc.obj = 0) => Len(intent_heap) < MaxIntents
    /\ register_intent(s, desc, handler, need_self)
    /\ last_op' = [op |-> "register_intent", skill |-> s, desc |-> desc,
                   handler |-> handler,
                   before |-> [registered_intents |-> registered_intents[s],
                               events |-> events[s],
                               subscriptions |-> subscriptions,
                               intent_heap |-> intent_heap]]
    /\ UNCHANGED <<lifecycle, skill_id, vocab_dir, is_alive, fallback_vars>>

\* mutant of DisableIntent: the recorded entries of that name are dropped
DisableIntentForgets(s, intent_name) ==
    /\ trace' = << EmitEv("detach_intent",
                          [intent_name |-> _unique_name(s, intent_name)]) >>
    /\ raised' = NoException
    /\ registered_intents' =
          [registered_intents EXCEPT ![s] =
              SelectSeq(@, LAMBDA pair : pair[1] # intent_name)]
    /\ last_op' = [op |-> "disable_intent", skill |-> s, name |-> intent_name,
                   before |-> [registered_intents |-> registered_intents[s],
                               events |-> events[s],
                               subscriptions |-> subscriptions,
                               intent_heap |-> intent_heap]]
    /\ UNCHANGED <<lifecycle, skill_id, vocab_dir, events, is_alive, wrappers_made,
                   intent_heap, subscriptions, fallback_vars>>

\* MycroftSkill.disable_intent: one detach_intent message, nothing else
DisableIntent(s, intent_name) ==
    /\ trace' = << EmitEv("detach_intent",
                          [intent_name |-> _unique_name(s, intent_name)]) >>
    /\ raised' = NoException
    /\ last_op' = [op |-> "disable_intent", skill |-> s, name |-> intent_name,
                   before |-> [registered_intents |-> registered_intents[s],
                               events |-> events[s],
                               subscriptions |-> subscriptions,
                               intent_heap |-> intent_heap]]
    /\ UNCHANGED <<skill_vars, fallback_vars>>

\* list.remove(x): the list without its first element equal to x
RECURSIVE ListRemove(_, _)
ListRemove(list, x) ==
    IF list = <<>> THEN <<>>
    ELSE IF Head(list) = x THEN Tail(list)
    ELSE <<Head(list)>> \o ListRemove(Tail(list), x)

\* mutant of EnableIntent: the recorded pair is not taken off the list
EnableIntentKeepsEntry(s, intent_name) ==
    /\ LET recorded == registered_intents[s]
           hits == { i \in 1..Len(recorded) : recorded[i][1] = intent_name }
       IN  IF hits = {}
           THEN /\ trace' = <<>>
                /\ UNCHANGED <<registered_intents, intent_heap>>
           ELSE LET first == CHOOSE i \in hits : \A j \in hits : i <= j
                    intent == recorded[first][2]
                    unique == _unique_name(s, intent_name)
                IN  /\ intent_heap' = [intent_heap EXCEPT ![intent] = unique]
                    /\ trace' = << EmitEv("register_intent", [name |-> unique]) >>
                    /\ registered_intents' =
                          [registered_intents EXCEPT ![s] =
                              Append(recorded, <<intent_name, intent>>)]
    /\ raised' = NoException
    /\ last_op' = [op |-> "enable_intent", skill |-> s, name |-> intent_name,
                   before |-> [registered_intents |-> registered_intents[s],
                               events |-> events[s],
                               subscriptions |-> subscriptions,
                               intent_heap |-> intent_heap]]
    /\ UNCHANGED <<lifecycle, skill_id, vocab_dir, events, is_alive, wrappers_made,
                   subscriptions, fallback_vars>>

\* MycroftSkill.enable_intent: the first recorded (name, intent) with that
\* name is taken off the list, the Intent object gets its local name back
\* and register_intent(intent, None) runs: the name is prefixed again, a
\* register_intent message is published, the pair is appended, and no
\* binding is made since the handler is None.  No such name: an error is
\* logged for every pair looked at.
EnableIntent(s, intent_name) ==
    /\ LET recorded == registered_intents[s]
           hits == { i \in 1..Len(recorded) : recorded[i][1] = intent_name }
       IN  IF hits = {}
           THEN /\ trace' = <<>>
                /\ UNCHANGED <<registered_intents, intent_heap>>
           ELSE LET first == CHOOSE i \in hits : \A j \in hits : i <= j
                    intent == recorded[first][2]
                    unique == _unique_name(s, intent_name)
                IN  /\ intent_heap' = [intent_heap EXCEPT ![intent] = unique]
                    /\ trace' = << EmitEv("register_intent", [name |-> unique]) >>
                    /\ registered_intents' =
                          [registered_intents EXCEPT ![s] =
                              Append(ListRemove(recorded, recorded[first]),
                                     <<intent_name, intent>>)]
    /\ raised' = NoException
    /\ last_op' = [op |-> "enable_intent", skill |-> s, name |-> intent_name,
                   before |-> [registered_intents |-> registered_intents[s],
                               events |-> events[s],
                               subscriptions |-> subscriptions,
                               intent_heap |-> intent_heap]]
    /\ UNCHANGED <<lifecycle, skill_id, vocab_dir, events, is_alive, wrappers_made,
                   subscriptions, fallback_vars>>

\* os.path.join(self.vocab_dir, file)
PathJoin(dir, file) == dir \o <<"/">> \o file

\* MycroftSkill.register_intent_file
RegisterIntentFile(s, intent_file, handler, need_self) ==
    /\ wrappers_made[s] < MaxEvents
    /\ LET name == _unique_name(s, intent_file)
       IN  IF vocab_dir[s] = None
           THEN \* join(None, ...) raises before anything is published
                /\ raised' = "AttributeError"
                /\ trace' = <<>>
                /\ UNCHANGED <<subscriptions, events, wrappers_made>>
           ELSE /\ trace' = << EmitEv("padatious:register_intent",
                                      [file_name |-> PathJoin(vocab_dir[s], intent_file),
                                       name |-> name]) >>
                /\ SetBinderState(s, add_event(BinderState(s), s, name, handler,
                                               need_self))
    /\ last_op' = [op |-> "register_intent_file", skill |-> s, file |-> intent_file]
    /\ UNCHANGED <<lifecycle, skill_id, vocab_dir, registered_intents, is_alive,
                   intent_heap, fallback_vars>>

\* the file names register_entity_file is given: '.entity' is one token
EntityFiles ==
    { <<"weekday", ".entity">>, <<"weekday">>, <<"weekday", ".intent">>,
      <<"week", ".entity", "day">>, <<"weekday", ".entity", ".entity">>,
      <<".entity">> }

\* sub in string
Contains(string, sub) == \E i \in 1..Len(string) : string[i] = sub

\* string.replace(old, new) for a one-token old: every occurrence, left to right
RECURSIVE Replace(_, _, _)
Replace(string, old, new) ==
    IF string = <<>> THEN <<>>
    ELSE (IF Head(string) = old THEN new ELSE <<Head(string)>>)
         \o Replace(Tail(string), old, new)

\* mutant of EntityFileAccepted: endswith('.entity') for "'.entity' in"
EntityFileEndsWithMarker(entity_file) ==
    entity_file # <<>> /\ entity_file[Len(entity_file)] = ".entity"

\* register_entity_file, line 459: the test on the file name
EntityFileAccepted(entity_file) == Contains(entity_file, ".entity")

\* register_entity_file, line 461: the registered name
EntityName(s, entity_file) ==
    _unique_name(s, Replace(entity_file, ".entity", <<>>))

\* MycroftSkill.register_entity_file
RegisterEntityFile(s, entity_file) ==
    /\ IF ~EntityFileAccepted(entity_file)
       THEN raised' = "ValueError" /\ trace' = <<>>
       ELSE IF vocab_dir[s] = None
       THEN raised' = "AttributeError" /\ trace' = <<>>
       ELSE /\ raised' = NoException
            /\ trace' = << EmitEv("padatious:register_entity",
                                  [file_name |-> PathJoin(vocab_dir[s], entity_file),
                                   name |-> EntityName(s, entity_file)]) >>
    /\ last_op' = [op |-> "register_entity_file", skill |-> s, file |-> entity_file]
    /\ UNCHANGED <<skill_vars, fallback_vars>>

-----------------------------------------------------------------------------
(* Scheduler client *)

\* mutant of _schedule_event: the request is published before the binding
\* is made
SchedulePublishesFirst(s, handler, name, repeat) ==
    /\ wrappers_made[s] < MaxEvents
    /\ LET given == IF name = None THEN <<SkillName(s), handler.func>> ELSE name
           unique == _unique_name(s, given)
       IN  /\ SetBinderState(s, add_event(BinderState(s), s, unique, handler, FALSE))
           /\ trace' = << EmitEv("mycroft.scheduler.schedule_event",
                                 [time |-> "when", event |-> unique,
                                  repeat |-> repeat, data |-> "data"]) >>
    /\ UNCHANGED <<lifecycle, skill_id, vocab_dir, registered_intents, is_alive,
                   intent_heap, fallback_vars>>

\* MycroftSkill._schedule_event: the handler is bound under the unique name,
\* then the request is published; when add_event raises nothing is published
_schedule_event(s, handler, name, repeat) ==
    /\ wrappers_made[s] < MaxEvents
    /\ LET given == IF name = None THEN <<SkillName(s), handler.func>> ELSE name
           unique == _unique_name(s, given)
           bound == add_event(BinderState(s), s, unique, handler, FALSE)
       IN  /\ SetBinderState(s, bound)
           /\ trace' = IF bound.raised # NoException THEN <<>>
                       ELSE << EmitEv("mycroft.scheduler.schedule_event",
                                      [time |-> "when", event |-> unique,
                                       repeat |-> repeat, data |-> "data"]) >>
    /\ UNCHANGED <<lifecycle, skill_id, vocab_dir, registered_intents, is_alive,
                   intent_heap, fallback_vars>>

\* MycroftSkill.schedule_event: no repeat
schedule_event(s, handler, name) ==
    /\ _schedule_event(s, handler, name, None)
    /\ last_op' = [op |-> "schedule_event", api |-> "schedule_event",
                   skill |-> s, handler |-> handler, name |-> name,
                   frequency |-> None,
                   before |-> [events |-> events[s], subscriptions |-> subscriptions]]

\* MycroftSkill.schedule_repeating_event: repeat is the frequency
schedule_repeating_event(s, handler, frequency, name) ==
    /\ _schedule_event(s, handler, name, frequency)
    /\ last_op' = [op |-> "schedule_event", api |-> "schedule_repeating_event",
                   skill |-> s, handler |-> handler, name |-> name,
                   frequency |-> frequency,
                   before |-> [events |-> events[s], subscriptions |-> subscriptions]]

-----------------------------------------------------------------------------
(* The wrapper add_event subscribes *)

\* what running a handler's body does: return, raise an Exception other
\* than TypeError, raise TypeError
BodyOutcomes == {"return", "Exception", "TypeError"}

\* handler(*args): the body runs when the handler accepts that many
\* arguments, else the call itself raises TypeError
CallHandler(handler, args, outcome) ==
    IF Len(args) \in handler.accepts
    THEN [events |-> <<CallEv(handler, args, outcome)>>, status |-> outcome]
    ELSE [events |-> <<>>, status |-> "TypeError"]

\* mutant of InvokeHandler: need_self is ignored, self is never passed
InvokeWithoutSelf(w, message, o1, o2) ==
    LET h == w.handler
    IN  IF h.argspec = 2 THEN CallHandler(h, <<message>>, o1)
        ELSE IF h.argspec = 1 THEN CallHandler(h, <<>>, o1)
        ELSE [events |-> <<>>, status |-> "TypeError"]

\* wrapper, lines 341-362: the call shape chosen from need_self and
\* len(getargspec(handler).args); o1 and o2 are what the first and the
\* second run of the body do
InvokeHandler(w, message, o1, o2) ==
    LET h == w.handler
        self == w.skill
    IN  IF w.need_self
        THEN IF h.argspec = 2 THEN CallHandler(h, <<self, message>>, o1)
             ELSE IF h.argspec = 1 THEN CallHandler(h, <<self>>, o1)
             ELSE IF h.argspec = 0
             THEN LET first == CallHandler(h, <<self, message>>, o1)
                  IN  IF first.status = "TypeError"
                      THEN LET second == CallHandler(h, <<self>>, o2)
                           IN  [events |-> first.events \o second.events,
                                status |-> second.status]
                      ELSE first
             ELSE [events |-> <<>>, status |-> "TypeError"]
        ELSE IF h.argspec = 2 THEN CallHandler(h, <<message>>, o1)
             ELSE IF h.argspec = 1 THEN CallHandler(h, <<>>, o1)
             ELSE [events |-> <<>>, status |-> "TypeError"]

\* MycroftSkill.speak: one speak message
speak(utterance) ==
    << EmitEv("speak", [utterance |-> utterance, expect_response |-> FALSE]) >>

\* wrapper, lines 364-375: the except branch
WrapperExcept(w, name, status) ==
    speak(<<"An error occurred while processing a request in ", SkillName(w.skill)>>)
    \o << EmitEv("mycroft.skill.handler.complete",
                 [handler |-> name, exception |-> status]) >>

\* wrapper, lines 376-378: the statement after the try
WrapperAfterTry(w, name) ==
    << EmitEv("mycroft.skill.handler.complete", [handler |-> name]) >>

\* mutant of wrapper: settings.store() in a finally clause
WrapperStoresAlways(w, message, o1, o2) ==
    LET name == get_handler_name(w.handler)
        inv == InvokeHandler(w, message, o1, o2)
    IN  << EmitEv("mycroft.skill.handler.start", [handler |-> name]) >>
        \o inv.events
        \o (IF inv.status = "return" THEN <<>>
            ELSE WrapperExcept(w, name, inv.status))
        \o <<StoreEv(w.skill)>>
        \o WrapperAfterTry(w, name)

\* wrapper, lines 335-378: everything one delivery does, in order
wrapper(w, message, o1, o2) ==
    LET name == get_handler_name(w.handler)
        inv == InvokeHandler(w, message, o1, o2)
    IN  << EmitEv("mycroft.skill.handler.start", [handler |-> name]) >>
        \o inv.events
        \o (IF inv.status = "return" THEN <<StoreEv(w.skill)>>
            ELSE WrapperExcept(w, name, inv.status))
        \o WrapperAfterTry(w, name)

\* the body of __handle_stop contains its own try/except and always returns
BodyMay(handler, outcome) == handler.body = "handle_stop" => outcome = "return"

\* the bus delivers a message to one subscribed wrapper
Deliver(name, w, o1, o2) ==
    /\ <<name, w>> \in subscriptions
    /\ BodyMay(w.handler, o1) /\ BodyMay(w.handler, o2)
    /\ trace' = wrapper(w, "message", o1, o2)
    /\ raised' = NoException
    /\ last_op' = [op |-> "deliver", skill |-> w.skill, wrapper |-> w,
                   name |-> name,
                   status |-> InvokeHandler(w, "message", o1, o2).status]
    /\ UNCHANGED <<skill_vars, fallback_vars>>

\* the threads the bus client delivers messages on
Threads == {"t1", "t2"}

\* a thread that is not inside a wrapper
IdleFrame == [pc |-> "idle"]

\* The wrapper as the steps of one thread.  A thread enters the wrapper of a
\* subscription: handler.start is published and the handler is called
\* (lines 338-362); what is left is settings.store() or the except branch.
WrapperEnter(t, name, w, o1, o2) ==
    /\ threads[t] = IdleFrame
    /\ <<name, w>> \in subscriptions
    /\ BodyMay(w.handler, o1) /\ BodyMay(w.handler, o2)
    /\ LET inv == InvokeHandler(w, "message", o1, o2)
       IN  threads' = [threads EXCEPT ![t] =
              [pc |-> IF inv.status = "return" THEN "store" ELSE "except",
               wrapper |-> w,
               status |-> inv.status,
               trace |-> << EmitEv("mycroft.skill.handler.start",
                                   [handler |-> get_handler_name(w.handler)]) >>
                         \o inv.events]]
    /\ UNCHANGED <<skill_vars, fallback_vars, pass, pass_trace, trace, raised,
                   last_op>>

\* line 363: the thread calls self.settings.store(); nothing in the wrapper
\* is acquired or waited for before the call
StoreBegin(t) ==
    /\ threads[t].pc = "store"
    /\ threads' = [threads EXCEPT ![t].pc = "storing",
                                  ![t].trace = Append(@, StoreEv(threads[t].wrapper.skill))]
    /\ UNCHANGED <<skill_vars, fallback_vars, pass, pass_trace, trace, raised,
                   last_op>>

\* line 363: settings.store() returns
StoreEnd(t) ==
    /\ threads[t].pc = "storing"
    /\ threads' = [threads EXCEPT ![t].pc = "after try"]
    /\ UNCHANGED <<skill_vars, fallback_vars, pass, pass_trace, trace, raised,
                   last_op>>

\* lines 364-375: the except branch
WrapperCatch(t) ==
    /\ threads[t].pc = "except"
    /\ threads' = [threads EXCEPT
          ![t].pc = "after try",
          ![t].trace = @ \o WrapperExcept(threads[t].wrapper,
                                          get_handler_name(threads[t].wrapper.handler),
                                          threads[t].status)]
    /\ UNCHANGED <<skill_vars, fallback_vars, pass, pass_trace, trace, raised,
                   last_op>>

\* lines 376-378: handler.complete is published and the wrapper returns; the
\* delivery becomes the last call of the skill
WrapperLeave(t) ==
    /\ threads[t].pc = "after try"
    /\ threads' = [threads EXCEPT ![t] = IdleFrame]
    /\ trace' = threads[t].trace
                 \o WrapperAfterTry(threads[t].wrapper,
                                    get_handler_name(threads[t].wrapper.handler))
    /\ raised' = NoException
    /\ last_op' = [op |-> "deliver", skill |-> threads[t].wrapper.skill,
                   wrapper |-> threads[t].wrapper, thread |-> t,
                   status |-> threads[t].status]
    /\ UNCHANGED <<skill_vars, fallback_vars, pass, pass_trace>>

-----------------------------------------------------------------------------
(* Skill lifecycle *)

\* load_skill, line 127: skill.bind(emitter) registers the mycroft.stop binding
LoadBind(s) ==
    /\ lifecycle[s] = "created"
    /\ lifecycle' = [lifecycle EXCEPT ![s] = "bound"]
    /\ SetBinderState(s, add_event(BinderState(s), s, <<"mycroft.stop">>,
                                   StopHandler(s), FALSE))
    /\ trace' = <<>>
    /\ last_op' = [op |-> "bind", skill |-> s]
    /\ UNCHANGED <<skill_id, vocab_dir, registered_intents, is_alive, intent_heap,
                   fallback_vars>>

\* load_skill, line 128
LoadSetId(s) ==
    /\ lifecycle[s] = "bound"
    /\ lifecycle' = [lifecycle EXCEPT ![s] = "idset"]
    /\ skill_id' = [skill_id EXCEPT ![s] = AssignedId(s)]
    /\ trace' = <<>>
    /\ raised' = NoException
    /\ last_op' = [op |-> "set_skill_id", skill |-> s]
    /\ UNCHANGED <<vocab_dir, events, registered_intents, is_alive, wrappers_made,
                   intent_heap, subscriptions, fallback_vars>>

\* load_skill, line 129: load_data_files.  init_dialog may raise before
\* vocab_dir is set, load_regex_files after; the except clause of load_skill
\* then gives the skill up.  (The skill directories hold no vocabulary.)
LoadDataFiles(s, outcome) ==
    /\ lifecycle[s] = "idset"
    /\ lifecycle' = [lifecycle EXCEPT ![s] =
                        IF outcome = "loaded" THEN "initializing" ELSE "failed"]
    /\ vocab_dir' = [vocab_dir EXCEPT ![s] =
                        IF outcome = "dialog error" THEN None
                        ELSE <<SkillName(s), "/vocab">>]
    /\ trace' = <<>>
    /\ raised' = NoException
    /\ last_op' = [op |-> "load_data_files", skill |-> s, outcome |-> outcome]
    /\ UNCHANGED <<skill_id, events, registered_intents, is_alive, wrappers_made,
                   intent_heap, subscriptions, fallback_vars>>

\* load_skill, lines 131-134: initialize() has returned, _register_decorated
\* finds nothing to register, the skill is returned
LoadFinish(s) ==
    /\ lifecycle[s] = "initializing"
    /\ lifecycle' = [lifecycle EXCEPT ![s] = "active"]
    /\ trace' = <<>>
    /\ raised' = NoException
    /\ last_op' = [op |-> "loaded", skill |-> s]
    /\ UNCHANGED <<skill_id, vocab_dir, events, registered_intents, is_alive,
                   wrappers_made, intent_heap, subscriptions, fallback_vars>>

\* load_skill, lines 131 and 139-143: initialize() raised
LoadInitializeFails(s) ==
    /\ lifecycle[s] = "initializing"
    /\ lifecycle' = [lifecycle EXCEPT ![s] = "failed"]
    /\ trace' = <<>>
    /\ raised' = NoException
    /\ last_op' = [op |-> "initialize_failed", skill |-> s]
    /\ UNCHANGED <<skill_id, vocab_dir, events, registered_intents, is_alive,
                   wrappers_made, intent_heap, subscriptions, fallback_vars>>

\* the function a skill module decorates with @intent_handler: a plain
\* function (self, message) of that module
DecoratedHandler(s) ==
    [owner |-> NoOwner, func |-> "handle_decorated", module |-> s, argspec |-> 2,
     accepts |-> {2}, body |-> "user"]

\* load_skill, lines 121-126: imp.load_module runs the module, whose
\* @intent_handler(IntentBuilder(...)) appends (intent_parser, func) to the
\* global _intent_list (lines 173-181); then create_skill().  The modules
\* use intent_handler only, _intent_file_list stays empty.
LoadModule(s) ==
    /\ lifecycle[s] = "unloaded"
    /\ lifecycle' = [lifecycle EXCEPT ![s] = "created"]
    /\ _intent_list' = Append(_intent_list,
                              <<Descriptor("IntentBuilder", 0, <<"a">>),
                                DecoratedHandler(s)>>)
    /\ trace' = <<>>
    /\ raised' = NoException
    /\ last_op' = [op |-> "load_module", skill |-> s]
    /\ UNCHANGED <<skill_id, vocab_dir, events, registered_intents, is_alive,
                   wrappers_made, intent_heap, subscriptions, fallback_vars,
                   decorated_next, pass, pass_trace, threads>>

\* load_skill, lines 131-132: initialize() has returned and
\* _register_decorated starts on the global list
LoadInitialized(s) ==
    /\ lifecycle[s] = "initializing"
    /\ lifecycle' = [lifecycle EXCEPT ![s] = "registering decorated"]
    /\ decorated_next' = 1
    /\ trace' = <<>>
    /\ raised' = NoException
    /\ last_op' = [op |-> "initialized", skill |-> s]
    /\ UNCHANGED <<skill_id, vocab_dir, events, registered_intents, is_alive,
                   wrappers_made, intent_heap, subscriptions, fallback_vars,
                   _intent_list, pass, pass_trace, threads>>

\* _register_decorated, lines 316-317: one turn of the loop over
\* _intent_list, self.register_intent(intent_parser, handler, need_self=True)
RegisterDecorated(s) ==
    /\ lifecycle[s] = "registering decorated"
    /\ decorated_next <= Len(_intent_list)
    /\ RegisterIntent(s, _intent_list[decorated_next][1],
                      _intent_list[decorated_next][2], TRUE)
    /\ decorated_next' = decorated_next + 1
    /\ UNCHANGED <<_intent_list, pass, pass_trace, threads>>

\* _register_decorated, lines 318-321, and load_skill, lines 133-134: the
\* loops are done, the global lists are emptied, the skill is returned
LoadDecoratedDone(s) ==
    /\ lifecycle[s] = "registering decorated"
    /\ decorated_next > Len(_intent_list)
    /\ lifecycle' = [lifecycle EXCEPT ![s] = "active"]
    /\ _intent_list' = <<>>
    /\ decorated_next' = 1
    /\ trace' = <<>>
    /\ raised' = NoException
    /\ last_op' = [op |-> "loaded", skill |-> s]
    /\ UNCHANGED <<skill_id, vocab_dir, events, registered_intents, is_alive,
                   wrappers_made, intent_heap, subscriptions, fallback_vars,
                   pass, pass_trace, threads>>

\* mutant of RemoveEvents: the loop misses the first binding
RemoveEventsAfterFirst(subs, evs) ==
    subs \ Range(IF evs = <<>> THEN evs ELSE Tail(evs))

\* MycroftSkill.shutdown, lines 608-609: the listeners left on the bus
RemoveEvents(subs, evs) == subs \ Range(evs)

\* mutant of TryStop: no try/except around self.stop()
StopPropagates(stop_outcome) ==
    IF stop_outcome = "return" THEN NoException ELSE stop_outcome

\* MycroftSkill.shutdown, lines 614-618: what leaves shutdown when stop()
\* returned or raised; the bare except catches everything
TryStop(stop_outcome) == NoException

\* FallbackSkill.shutdown: remove_instance_handlers, then MycroftSkill.shutdown.
\* On a skill already shut down self.events is None and the for statement
\* raises after the settings were stored.
Shutdown(s, stop_outcome) ==
    /\ lifecycle[s] \in {"active", "shutdown"}
    /\ \E fh \in remove_instance_handlers(fallback_handlers,
                                          instance_fallback_handlers[s]) :
          /\ fallback_handlers' = fh
          /\ fallback_owner' = Restrict(fallback_owner, DOMAIN fh)
    /\ instance_fallback_handlers' = [instance_fallback_handlers EXCEPT ![s] = <<>>]
    /\ is_alive' = [is_alive EXCEPT ![s] = FALSE]
    /\ lifecycle' = [lifecycle EXCEPT ![s] = "shutdown"]
    /\ IF events[s] = None
       THEN /\ trace' = <<StoreEv(s)>>
            /\ raised' = "TypeError"
            /\ UNCHANGED <<subscriptions, events>>
       ELSE /\ subscriptions' = RemoveEvents(subscriptions, events[s])
            /\ events' = [events EXCEPT ![s] = None]
            /\ trace' = << StoreEv(s),
                           EmitEv("detach_skill",
                                  [skill_id |-> Str(skill_id[s]) \o <<":">>]),
                           CallEv([owner |-> s, func |-> "stop"], <<>>, stop_outcome) >>
            /\ raised' = TryStop(stop_outcome)
    /\ last_op' = [op |-> "shutdown", skill |-> s, stop |-> stop_outcome,
                   before |-> [events |-> events[s],
                               registered |-> { p \in DOMAIN fallback_owner :
                                                   fallback_owner[p] = s }]]
    /\ UNCHANGED <<skill_id, vocab_dir, registered_intents, wrappers_made,
                   intent_heap>>

-----------------------------------------------------------------------------
(* Specifications *)

\* the mycroft.stop binding bind() makes for skill s, its first wrapper
StopBinding(s) == <<<<"mycroft.stop">>, Wrapper(s, 1, StopHandler(s), FALSE)>>

\* The skills in loaded have been returned by load_skill and their
\* initialize() registered nothing; the others are at the step elsewhere of
\* their load: "unloaded", load_skill not yet called for them (their fields
\* are what __init__ will set), or "created", create_skill() has returned:
\* MycroftSkill.__init__ and FallbackSkill.__init__ without an emitter,
\* lines 207-222 and 715-719.  No decorated handler is waiting.
InitAt(loaded, elsewhere) ==
    /\ lifecycle = [s \in Skills |-> IF s \in loaded THEN "active" ELSE elsewhere]
    /\ skill_id = [s \in Skills |-> IF s \in loaded THEN AssignedId(s) ELSE 0]
    /\ vocab_dir = [s \in Skills |->
                       IF s \in loaded THEN <<SkillName(s), "/vocab">> ELSE None]
    /\ events = [s \in Skills |-> IF s \in loaded THEN <<StopBinding(s)>> ELSE <<>>]
    /\ registered_intents = [s \in Skills |-> <<>>]
    /\ instance_fallback_handlers = [s \in Skills |-> <<>>]
    /\ is_alive = [s \in Skills |-> TRUE]
    /\ wrappers_made = [s \in Skills |-> IF s \in loaded THEN 1 ELSE 0]
    /\ intent_heap = <<>>
    /\ subscriptions = { StopBinding(s) : s \in loaded }
    /\ fallback_handlers = <<>>
    /\ fallback_owner = <<>>
    /\ pass = IdlePass
    /\ pass_trace = <<>>
    /\ trace = <<>>
    /\ raised = NoException
    /\ last_op = [op |-> "none"]
    /\ threads = [t \in Threads |-> IdleFrame]
    /\ _intent_list = <<>>
    /\ decorated_next = 1

InitWith(loaded) == InitAt(loaded, "created")

\* the skill whose load, registration calls and shutdown the lifecycle
\* specification follows; the other skill was loaded before it
Registrant == "s1"

\* the Registrant is about to be loaded
Init == InitWith(Skills \ {Registrant})

\* every skill is loaded
InitLoaded == InitWith(Skills)

\* the descriptors a skill may hand to register_intent
Descriptors(s) ==
    { Descriptor(kind, 0, name) :
        kind \in {"IntentBuilder", "Intent", "other"}, name \in LocalNames }
    \cup { Descriptor("Intent", registered_intents[s][i][2], <<>>) :
             i \in 1..Len(registered_intents[s]) }

\* how often a repeating event fires, in seconds
Frequencies == {"60 s"}

StopOutcomes == {"return", "Exception"}

\* the name argument of the scheduler calls: left out (None), or given
EventNameArgs == <<None, <<"a">>, <<"b">>>>

\* a call made while no dispatch pass is in flight; the dispatcher's frame of
\* the pass before is gone
Call(A) ==
    /\ pass.pc # "running"
    /\ A
    /\ pass' = IdlePass
    /\ pass_trace' = <<>>
    /\ UNCHANGED <<threads, decorator_vars>>

\* the registration calls
NextRegister(s) ==
    \/ \E name \in LocalNames :
          CanRegister(s) /\ Call(AddEvent(s, name, UserHandler(s), FALSE))
    \/ \E desc \in Descriptors(s), handler \in {UserHandler(s), NoneHandler} :
          CanRegister(s) /\ Call(RegisterIntent(s, desc, handler, FALSE))
    \/ \E file \in LocalNames :
          CanRegister(s) /\ Call(RegisterIntentFile(s, file, UserHandler(s), FALSE))
    \/ \E file \in EntityFiles :
          CanRegister(s) /\ Call(RegisterEntityFile(s, file))
    \/ \E i \in 1..Len(EventNameArgs) :
          CanRegister(s) /\ Call(schedule_event(s, UserHandler(s), EventNameArgs[i]))
    \/ \E i \in 1..Len(EventNameArgs), frequency \in Frequencies :
          /\ CanRegister(s)
          /\ Call(schedule_repeating_event(s, UserHandler(s), frequency,
                                           EventNameArgs[i]))

\* load_skill and shutdown of any skill
NextLifecycle(s) ==
    \/ Call(LoadBind(s))
    \/ Call(LoadSetId(s))
    \/ \E outcome \in {"loaded", "dialog error", "regex error"} :
          Call(LoadDataFiles(s, outcome))
    \/ Call(LoadFinish(s))
    \/ Call(LoadInitializeFails(s))
    \/ \E outcome \in StopOutcomes : Call(Shutdown(s, outcome))

\* the skill lifecycle: load_skill, the registration calls, shutdown
Next ==
    \/ \E s \in Skills : NextLifecycle(s)
    \/ NextRegister(Registrant)

Spec == Init /\ [][Next]_vars

\* the fallback chain: registration, removal, dispatch passes, shutdown
NextFallback ==
    \/ \E s \in Skills, handler \in AllFallbackHandlers, priority \in ReqPriorities :
          /\ handler \in FallbackHandlersOf(s)
          /\ Call(register_fallback(s, handler, priority))
    \/ FallbackStart
    \/ FallbackTry
    \/ FallbackExhausted
    \/ \E s \in Skills, outcome \in StopOutcomes : Call(Shutdown(s, outcome))

SpecFallback == InitLoaded /\ [][NextFallback]_vars

\* the intent registry of a loaded skill: registering, disabling, enabling
NextIntents ==
    \/ \E desc \in Descriptors(Registrant),
          handler \in {UserHandler(Registrant), NoneHandler} :
          CanRegister(Registrant) /\ Call(RegisterIntent(Registrant, desc, handler, FALSE))
    \/ \E name \in LocalNames :
          CanRegister(Registrant) /\ Call(DisableIntent(Registrant, name))
    \/ \E name \in LocalNames :
          CanRegister(Registrant) /\ Call(EnableIntent(Registrant, name))

SpecIntents == InitLoaded /\ [][NextIntents]_vars

\* a call made on another thread while a dispatch pass may be in flight: the
\* dispatcher's frame is not its to touch
Concurrently(A) == A /\ UNCHANGED <<pass, pass_trace, threads, decorator_vars>>

\* the skill whose calls run on a thread of their own
ConcurrentSkill == "s2"

\* the fallback chain with the bus delivering on several threads: a skill
\* registers and removes handlers while a pass is running
NextFallbackConcurrent ==
    \/ \E handler \in FallbackHandlersOf(ConcurrentSkill), priority \in ReqPriorities :
          Concurrently(register_fallback(ConcurrentSkill, handler, priority))
    \/ \E handler \in FallbackHandlersOf(ConcurrentSkill) :
          Concurrently(RemoveFallbackCall(ConcurrentSkill, handler))
    \/ FallbackStart
    \/ FallbackTry
    \/ FallbackExhausted

SpecFallbackConcurrent == InitLoaded /\ [][NextFallbackConcurrent]_vars

\* the shapes of handler a skill binds with add_event: bound methods and
\* plain functions of each declared arity, decorated functions, whose
\* (*args, **kwargs) signature getargspec reports as no arguments, and a
\* function declared (*args), which takes any number
HandlerShapes(s) ==
    { [owner |-> s, func |-> "method(self, message)", argspec |-> 2,
       accepts |-> {1}, body |-> "user"],
      [owner |-> s, func |-> "method(self)", argspec |-> 1,
       accepts |-> {0}, body |-> "user"],
      [owner |-> s, func |-> "method(self, a, b)", argspec |-> 3,
       accepts |-> {2}, body |-> "user"],
      [owner |-> NoOwner, func |-> "function(self, message)", argspec |-> 2,
       accepts |-> {2}, body |-> "user"],
      [owner |-> NoOwner, func |-> "function(self)", argspec |-> 1,
       accepts |-> {1}, body |-> "user"],
      [owner |-> NoOwner, func |-> "function()", argspec |-> 0,
       accepts |-> {0}, body |-> "user"],
      [owner |-> NoOwner, func |-> "decorated(self, message)", argspec |-> 0,
       accepts |-> {2}, body |-> "user"],
      [owner |-> NoOwner, func |-> "decorated(self)", argspec |-> 0,
       accepts |-> {1}, body |-> "user"],
      [owner |-> NoOwner, func |-> "function(*args)", argspec |-> 0,
       accepts |-> {0, 1, 2}, body |-> "user"] }

\* the skill whose bindings the event binder specification exercises
BinderSkill == "s1"

\* the event binder: bindings of every handler shape and their deliveries
NextWrapper ==
    \/ \E handler \in HandlerShapes(BinderSkill), need_self \in BOOLEAN :
          /\ CanRegister(BinderSkill)
          /\ Call(AddEvent(BinderSkill, <<"event">>, handler, need_self))
    \/ \E sub \in subscriptions, o1 \in BodyOutcomes, o2 \in BodyOutcomes :
          Call(Deliver(sub[1], sub[2], o1, o2))
    \/ \E outcome \in StopOutcomes : Call(Shutdown(BinderSkill, outcome))

SpecWrapper == InitLoaded /\ [][NextWrapper]_vars

\* the event binder with the bus delivering on several threads: a skill
\* binds handlers, and each thread runs the wrapper of a delivery step by step
NextThreads ==
    \/ \E name \in LocalNames :
          /\ CanRegister(BinderSkill)
          /\ AddEvent(BinderSkill, name, UserHandler(BinderSkill), FALSE)
          /\ UNCHANGED <<pass, pass_trace, threads, decorator_vars>>
    \/ \E t \in Threads, sub \in subscriptions, o \in BodyOutcomes :
          WrapperEnter(t, sub[1], sub[2], o, o)
    \/ \E t \in Threads : StoreBegin(t)
    \/ \E t \in Threads : StoreEnd(t)
    \/ \E t \in Threads : WrapperCatch(t)
    \/ \E t \in Threads : WrapperLeave(t)

SpecThreads == InitLoaded /\ [][NextThreads]_vars

\* a skill that calls its methods whenever it likes, after its shutdown too
NextTerminal ==
    \/ \E outcome \in StopOutcomes : Call(Shutdown(Registrant, outcome))
    \/ \E name \in LocalNames :
          Call(AddEvent(Registrant, name, UserHandler(Registrant), FALSE))
    \/ \E desc \in Descriptors(Registrant) :
          Call(RegisterIntent(Registrant, desc, UserHandler(Registrant), FALSE))
    \/ \E file \in LocalNames :
          Call(RegisterIntentFile(Registrant, file, UserHandler(Registrant), FALSE))
    \/ \E i \in 1..Len(EventNameArgs) :
          Call(schedule_event(Registrant, UserHandler(Registrant), EventNameArgs[i]))
    \/ \E i \in 1..Len(EventNameArgs), frequency \in Frequencies :
          Call(schedule_repeating_event(Registrant, UserHandler(Registrant),
                                        frequency, EventNameArgs[i]))

SpecTerminal == InitLoaded /\ [][NextTerminal]_vars

\* register_fallback as the steps of one thread.  Line 772: the handler is
\* appended to the instance's list, then _register_fallback is entered with
\* the requested priority.
RegisterFallbackBegin(t, s, handler, priority) ==
    /\ threads[t] = IdleFrame
    /\ lifecycle[s] \in {"initializing", "active"}
    /\ Cardinality(DOMAIN fallback_handlers) < MaxFallbacks
    /\ Len(instance_fallback_handlers[s]) < MaxFallbacks
    /\ instance_fallback_handlers' =
          [instance_fallback_handlers EXCEPT ![s] = Append(@, handler)]
    /\ threads' = [threads EXCEPT ![t] =
          [pc |-> "probe", skill |-> s, handler |-> handler,
           priority |-> priority, requested |-> priority]]
    /\ UNCHANGED <<skill_vars, fallback_handlers, fallback_owner, pass,
                   pass_trace, trace, raised, last_op>>

\* lines 762-763: one evaluation of 'priority in cls.fallback_handlers'; the
\* priority is taken: priority += 1 and the test is made again; it is free:
\* the loop is left.  The registry is read, nothing is reserved.
RegisterFallbackProbe(t) ==
    /\ threads[t].pc = "probe"
    /\ threads' = [threads EXCEPT ![t] =
          IF threads[t].priority \in DOMAIN fallback_handlers
          THEN [@ EXCEPT !.priority = @ + 1]
          ELSE [@ EXCEPT !.pc = "assign"]]
    /\ UNCHANGED <<skill_vars, fallback_vars, pass, pass_trace, trace, raised,
                   last_op>>

\* line 765: cls.fallback_handlers[priority] = handler, whatever the registry
\* holds under that priority by now; register_fallback returns
RegisterFallbackAssign(t) ==
    /\ threads[t].pc = "assign"
    /\ fallback_handlers' =
          [p \in (DOMAIN fallback_handlers) \cup {threads[t].priority} |->
              IF p = threads[t].priority THEN threads[t].handler
              ELSE fallback_handlers[p]]
    /\ fallback_owner' =
          [p \in DOMAIN fallback_handlers' |->
              IF p = threads[t].priority THEN threads[t].skill
              ELSE fallback_owner[p]]
    /\ threads' = [threads EXCEPT ![t] = IdleFrame]
    /\ trace' = <<>>
    /\ raised' = NoException
    /\ last_op' = [op |-> "register_fallback", skill |-> threads[t].skill,
                   handler |-> threads[t].handler,
                   priority |-> threads[t].requested,
                   before |-> fallback_handlers]
    /\ UNCHANGED <<skill_vars, instance_fallback_handlers, pass, pass_trace>>

\* the skill whose code a thread is running
SkillOnThread(t) == IF t = "t1" THEN "s1" ELSE "s2"

\* two skills registering fallbacks at once, each from a thread of its own
NextFallbackThreads ==
    \/ \E t \in Threads, priority \in ReqPriorities :
          \E handler \in FallbackHandlersOf(SkillOnThread(t)) :
             RegisterFallbackBegin(t, SkillOnThread(t), handler, priority)
    \/ \E t \in Threads : RegisterFallbackProbe(t)
    \/ \E t \in Threads : RegisterFallbackAssign(t)

SpecFallbackThreads == InitLoaded /\ [][NextFallbackThreads]_vars

\* no skill has been loaded yet
InitUnloaded == InitAt({}, "unloaded")

\* load_skill is called for one skill at a time: no other load is under way
NoLoadUnderWay == \A s \in Skills : lifecycle[s] \in {"unloaded", "active", "failed", "shutdown"}

\* the loads of skills whose modules use the decorators, one after another
NextDecorators ==
    \/ \E s \in Skills : NoLoadUnderWay /\ LoadModule(s)
    \/ \E s \in Skills : Call(LoadBind(s))
    \/ \E s \in Skills : Call(LoadSetId(s))
    \/ \E s \in Skills, outcome \in {"loaded", "dialog error", "regex error"} :
          Call(LoadDataFiles(s, outcome))
    \/ \E s \in Skills : Call(LoadInitializeFails(s))
    \/ \E s \in Skills : LoadInitialized(s)
    \/ \E s \in Skills : RegisterDecorated(s)
    \/ \E s \in Skills : LoadDecoratedDone(s)
    \/ \E s \in Skills, outcome \in StopOutcomes : Call(Shutdown(s, outcome))

SpecDecorators == InitUnloaded /\ [][NextDecorators]_vars

-----------------------------------------------------------------------------
(* Claims *)

Start == "mycroft.skill.handler.start"
Complete == "mycroft.skill.handler.complete"

\* the positions of the messages of a type in a trace
Positions(t, type) ==
    { i \in 1..Len(t) : t[i].ev = "emit" /\ t[i].msg.type = type }

HasException(m) == "exception" \in DOMAIN m.data

\* C1: every delivery to a wrapper made by add_event publishes exactly one
\* handler.start and, after it, exactly one handler.complete, whether the
\* handler returns or raises.
C1_OneStartThenOneComplete ==
    last_op.op = "deliver" =>
        /\ Cardinality(Positions(trace, Start)) = 1
        /\ Cardinality(Positions(trace, Complete)) = 1
        /\ \A i \in Positions(trace, Start), j \in Positions(trace, Complete) : i < j

\* C2: when the handler raises, the wrapper returns normally, a spoken error
\* is emitted and the handler.complete of the delivery carries an exception
\* field; when it returns, the handler.complete carries none.
C2_CompleteTellsTheOutcome ==
    last_op.op = "deliver" =>
        LET completes == OfType(trace, Complete)
        IN  /\ raised = NoException
            /\ Len(completes) >= 1
            /\ IF last_op.status # "return"
               THEN /\ Len(OfType(trace, "speak")) = 1
                    /\ \A i \in 1..Len(completes) : HasException(completes[i])
               ELSE /\ Len(OfType(trace, "speak")) = 0
                    /\ \A i \in 1..Len(completes) : ~HasException(completes[i])

\* C3: register_fallback(handler, p) stores the handler under the smallest
\* q >= p that was free when it was called and leaves every entry that was
\* there under its priority (two requests for 10 end at 10 and 11).
C3_RegisterAtFirstFreePriority ==
    last_op.op = "register_fallback" =>
        LET before == last_op.before
            p == last_op.priority
        IN  \E q \in DOMAIN fallback_handlers :
                /\ q >= p
                /\ q \notin DOMAIN before
                /\ \A r \in p..(q - 1) : r \in DOMAIN before
                /\ DOMAIN fallback_handlers = (DOMAIN before) \cup {q}
                /\ fallback_handlers[q] = last_op.handler
                /\ \A r \in DOMAIN before : fallback_handlers[r] = before[r]

\* C3 witness: a second, different handler asked for 10 and sits at 11, the
\* first one still at 10
C3_Witness ==
    /\ last_op.op = "register_fallback"
    /\ last_op.priority = 10
    /\ DOMAIN last_op.before = {10}
    /\ DOMAIN fallback_handlers = {10, 11}
    /\ fallback_handlers[11] = last_op.handler
    /\ fallback_handlers[10] # fallback_handlers[11]

\* the calls a dispatch pass has made so far
PassCalls == Calls(pass_trace)

PassSucceeded == \E i \in 1..Len(PassCalls) : PassCalls[i].outcome = "true"

\* C4: a dispatch pass invokes the registered handlers in ascending order of
\* priority, skipping none, stops at the first one that returns a true value,
\* and then publishes exactly one handler.complete for "fallback" that names it.
C4_AscendingUntilFirstSuccess ==
    LET c == PassCalls
        n == Len(c)
        reg == pass.registry
    IN  pass.pc # "idle" =>
          /\ \A i \in 1..n : c[i].prio \in DOMAIN reg /\ c[i].handler = reg[c[i].prio]
          /\ \A i, j \in 1..n : i < j => c[i].prio < c[j].prio
          /\ \A i \in 1..n : \A p \in DOMAIN reg :
                p < c[i].prio => \E j \in 1..(i - 1) : c[j].prio = p
          /\ \A i \in 1..n : c[i].outcome = "true" => i = n
          /\ PassSucceeded =>
                /\ pass.pc = "done"
                /\ Positions(pass_trace, Complete) = {Len(pass_trace)}
                /\ pass_trace[Len(pass_trace)].msg.data =
                      [handler |-> <<"fallback">>,
                       fallback_handler |-> get_handler_name(c[n].handler)]

\* C4 witness: the second handler tried reported success and an entry of
\* lower precedence was left alone
C4_Witness ==
    /\ pass.pc = "done"
    /\ Len(PassCalls) = 2
    /\ PassCalls[2].outcome = "true"
    /\ \E p \in DOMAIN pass.registry : p > PassCalls[2].prio

\* C5: a pass publishes complete_intent_failure, once, followed by one
\* handler.complete with an exception field, exactly when no handler
\* returned a true value (an empty registry included); a pass in which a
\* handler succeeds does not publish it.
C5_ExhaustionIffNoSuccess ==
    LET failures == Positions(pass_trace, "complete_intent_failure")
        completes == Positions(pass_trace, Complete)
        n == Len(pass_trace)
    IN  /\ pass.pc = "running" => failures = {}
        /\ pass.pc = "done" =>
              IF PassSucceeded THEN failures = {}
              ELSE /\ failures = {n - 1}
                   /\ completes = {n}
                   /\ HasException(pass_trace[n].msg)

\* C5 witness: two handlers were tried, none succeeded
C5_Witness ==
    /\ pass.pc = "done"
    /\ Len(PassCalls) = 2
    /\ ~PassSucceeded
    /\ Positions(pass_trace, "complete_intent_failure") # {}

\* C6: a fallback handler that raises counts as not matching: the exception
\* stays inside the dispatcher and the handlers after it are still tried, in
\* order, until one succeeds or none is left.
C6_RaiseDoesNotAbortTheChain ==
    LET c == PassCalls
        n == Len(c)
    IN  /\ pass.raised = NoException
        /\ pass.pc = "done" =>
              \A i \in 1..n : c[i].outcome = "raise" =>
                  \A p \in DOMAIN pass.registry : p > c[i].prio =>
                      \/ \E j \in (i + 1)..n : c[j].prio = p
                      \/ \E j \in (i + 1)..n : c[j].outcome = "true" /\ c[j].prio < p

\* C6 witness: the first handler raised and the second was tried
C6_Witness ==
    /\ pass.pc = "done"
    /\ Len(PassCalls) >= 2
    /\ PassCalls[1].outcome = "raise"

\* C8: after shutdown of a skill the registry holds no entry that this
\* instance registered, whatever other skills have registered.
C8_ShutdownRemovesOwnFallbacks ==
    last_op.op = "shutdown" =>
        \A p \in DOMAIN fallback_owner : fallback_owner[p] # last_op.skill

\* the listeners on the bus whose wrapper was made by skill s
SubscriptionsOf(s) == { sub \in subscriptions : sub[2].skill = s }

\* C7: once shutdown of a skill has run, every (event name, wrapper) pair the
\* skill subscribed through add_event (directly, through register_intent,
\* register_intent_file, the scheduler calls or the mycroft.stop binding) is
\* off the bus, so no delivery reaches a handler of that skill.
C7_ShutdownUnsubscribesEverything ==
    (last_op.op = "shutdown" /\ raised = NoException) =>
        /\ SubscriptionsOf(last_op.skill) = {}
        /\ \A i \in 1..Len(last_op.before.events) :
              last_op.before.events[i] \notin subscriptions

\* C7 witness: the skill shut down held the mycroft.stop binding and two
\* bindings under names of its own
C7_Witness ==
    /\ last_op.op = "shutdown"
    /\ raised = NoException
    /\ Len(last_op.before.events) = 3
    /\ last_op.before.events[1][1] = <<"mycroft.stop">>
    /\ last_op.before.events[2][1] # last_op.before.events[3][1]

C10_BadDescriptorChangesNothing ==
    (last_op.op = "register_intent" /\ last_op.desc.kind = "other") =>
        /\ raised = "ValueError"
        /\ Emitted(trace) = <<>>
        /\ registered_intents[last_op.skill] = last_op.before.registered_intents
        /\ events[last_op.skill] = last_op.before.events
        /\ subscriptions = last_op.before.subscriptions
        /\ intent_heap = last_op.before.intent_heap

\* C10 witness: a skill that had registered an intent passed a bad descriptor
\* together with a handler
C10_Witness ==
    /\ last_op.op = "register_intent"
    /\ last_op.desc.kind = "other"
    /\ last_op.handler # NoneHandler
    /\ raised = "ValueError"
    /\ registered_intents[last_op.skill] # <<>>

\* C11: a handler that takes no arguments, bound with need_self false, is
\* called with no arguments on every delivery, and when its body returns the
\* delivery ends as a success: no spoken error, no exception field.
C11_ZeroArgumentHandlerIsCalledBare ==
    (/\ last_op.op = "deliver"
     /\ ~last_op.wrapper.need_self
     /\ 0 \in last_op.wrapper.handler.accepts) =>
        LET c == Calls(trace)
            completes == OfType(trace, Complete)
        IN  /\ Len(c) = 1
            /\ c[1].handler = last_op.wrapper.handler
            /\ c[1].args = <<>>
            /\ c[1].outcome = "return" =>
                  /\ OfType(trace, "speak") = <<>>
                  /\ \A i \in 1..Len(completes) : ~HasException(completes[i])

\* C12: a handler declared with two parameters, bound with need_self true,
\* is called once per delivery, as (owning skill, delivered message).
C12_TwoArgumentHandlerGetsSelfAndMessage ==
    (/\ last_op.op = "deliver"
     /\ last_op.wrapper.need_self
     /\ last_op.wrapper.handler.argspec = 2
     /\ last_op.wrapper.handler.accepts = {2}) =>
        LET c == Calls(trace)
        IN  /\ Len(c) = 1
            /\ c[1].handler = last_op.wrapper.handler
            /\ c[1].args = <<last_op.wrapper.skill, "message">>

\* C12 witness: a function (self, message) bound with need_self was delivered
\* a message and returned
C12_Witness ==
    /\ last_op.op = "deliver"
    /\ last_op.wrapper.need_self
    /\ last_op.wrapper.handler.func = "function(self, message)"
    /\ last_op.status = "return"
    /\ Len(Calls(trace)) = 1

\* the positions of the settings.store() calls in a trace
StorePositions(t) == { i \in 1..Len(t) : t[i].ev = "store" }

\* the positions of the handler bodies entered in a trace
CallPositions(t) == { i \in 1..Len(t) : t[i].ev = "call" }

\* C18: the wrapper calls settings.store() exactly once in a delivery whose
\* handler returns, after the handler has returned and before
\* handler.complete is published, and not at all when the handler raises.
C18_StoreOnceAfterSuccessOnly ==
    last_op.op = "deliver" =>
        LET stores == StorePositions(trace)
        IN  IF last_op.status = "return"
            THEN /\ Cardinality(stores) = 1
                 /\ \A k \in stores :
                       /\ trace[k].skill = last_op.skill
                       /\ \A i \in CallPositions(trace) : i < k
                       /\ \A j \in Positions(trace, Complete) : k < j
                       /\ \A i \in Positions(trace, Start) : i < k
            ELSE stores = {}

\* C18 witness: a delivery to a user handler that returned, its settings
\* stored before the handler.complete
C18_Witness ==
    /\ last_op.op = "deliver"
    /\ last_op.status = "return"
    /\ last_op.wrapper.handler.body = "user"
    /\ Len(Calls(trace)) = 1
    /\ StorePositions(trace) # {}
    /\ Positions(trace, Complete) # {}

\* the call of the user's stop() in a shutdown trace, if it was reached
StopCalls(t) == SelectSeq(Calls(t), LAMBDA c : c.handler.func = "stop")

\* C13: shutdown completes when the user's stop() raises: nothing leaves
\* shutdown, and the settings were stored, every binding of the skill is off
\* the bus and exactly one detach_skill was published.
C13_ShutdownSurvivesFailingStop ==
    (/\ last_op.op = "shutdown"
     /\ \E i \in 1..Len(StopCalls(trace)) : StopCalls(trace)[i].outcome = "Exception") =>
        /\ raised = NoException
        /\ Cardinality(StorePositions(trace)) = 1
        /\ ~is_alive[last_op.skill]
        /\ SubscriptionsOf(last_op.skill) = {}
        /\ \A i \in 1..Len(last_op.before.events) :
              last_op.before.events[i] \notin subscriptions
        /\ Len(OfType(trace, "detach_skill")) = 1
        /\ OfType(trace, "detach_skill")[1].data.skill_id =
              Str(skill_id[last_op.skill]) \o <<":">>

\* C13 witness: the stop() of a skill with bindings of its own raised
C13_Witness ==
    /\ last_op.op = "shutdown"
    /\ Len(StopCalls(trace)) = 1
    /\ StopCalls(trace)[1].outcome = "Exception"
    /\ Len(last_op.before.events) >= 2

\* C16: the skill makes no bus subscription while its skill_id is not yet
\* the id load_skill assigns: a skill whose skill_id is still another value
\* holds no binding.
C16_NoBindingBeforeSkillId ==
    \A s \in Skills :
        skill_id[s] # AssignedId(s) =>
            /\ SubscriptionsOf(s) = {}
            /\ events[s] = <<>>
            /\ registered_intents[s] = <<>>

\* C17: while a skill has not been shut down, its listeners on the bus are
\* exactly the (event name, wrapper) pairs of its events list.
C17_EventsListMirrorsTheBus ==
    \A s \in Skills :
        lifecycle[s] # "shutdown" =>
            /\ events[s] # None
            /\ SubscriptionsOf(s) = Range(events[s])
            /\ \A i, j \in 1..Len(events[s]) : events[s][i] = events[s][j] => i = j

\* C17 witness: a skill holding the mycroft.stop binding and two of its own
C17_Witness ==
    /\ lifecycle[Registrant] = "active"
    /\ Len(events[Registrant]) = 3
    /\ Cardinality(SubscriptionsOf(Registrant)) = 3
    /\ last_op.op \in {"add_event", "register_intent", "schedule_event"}

\* C14: remove_fallback with a handler that is not in the registry raises
\* nothing and leaves the registry as it was; with a registered handler it
\* deletes an entry of that handler and leaves every other entry as it was.
C14_RemoveFallbackDeletesOneEntry ==
    last_op.op = "remove_fallback" =>
        LET before == last_op.before
            held == { p \in DOMAIN before : before[p] = last_op.handler }
        IN  /\ raised = NoException
            /\ IF held = {} THEN fallback_handlers = before
               ELSE \E p \in held :
                      /\ DOMAIN fallback_handlers = (DOMAIN before) \ {p}
                      /\ \A q \in DOMAIN fallback_handlers :
                            fallback_handlers[q] = before[q]

\* C14 witness: a handler stored under two priorities was removed once, next
\* to an entry of another handler
C14_Witness ==
    /\ last_op.op = "remove_fallback"
    /\ Cardinality(DOMAIN last_op.before) = 3
    /\ Cardinality({ p \in DOMAIN last_op.before :
                        last_op.before[p] = last_op.handler }) = 2
    /\ Cardinality(DOMAIN fallback_handlers) = 2

\* C14 witness: a handler nobody registered was removed from a registry that
\* holds others
C14_WitnessUnregistered ==
    /\ last_op.op = "remove_fallback"
    /\ DOMAIN last_op.before # {}
    /\ \A p \in DOMAIN last_op.before : last_op.before[p] # last_op.handler

\* C19: a dispatch pass walks the copy of the registry taken when it
\* started: whatever is registered or removed meanwhile, each handler of
\* that copy is called at most once, in ascending order of priority, none
\* passed over before a success, and all of them when none succeeds.
C19_PassWalksItsSnapshot ==
    LET c == PassCalls
        n == Len(c)
        snapshot == pass.registry
    IN  pass.pc # "idle" =>
          /\ \A i \in 1..n :
                c[i].prio \in DOMAIN snapshot /\ c[i].handler = snapshot[c[i].prio]
          /\ \A i, j \in 1..n : i < j => c[i].prio < c[j].prio
          /\ \A i \in 1..n : \A p \in DOMAIN snapshot :
                p < c[i].prio => \E j \in 1..(i - 1) : c[j].prio = p
          /\ (pass.pc = "done" /\ ~PassSucceeded) =>
                \A p \in DOMAIN snapshot : \E i \in 1..n : c[i].prio = p

\* C19 witness: during a pass over two entries the first was removed and a
\* new one registered below the second; both entries of the copy were called
C19_Witness ==
    /\ pass.pc = "done"
    /\ Cardinality(DOMAIN pass.registry) = 2
    /\ Len(PassCalls) = 2
    /\ \E p \in DOMAIN pass.registry : p \notin DOMAIN fallback_handlers
    /\ \E q \in DOMAIN fallback_handlers : q \notin DOMAIN pass.registry

\* the names a skill's intents may carry: str(skill_id) + ':' + local name
Namespaced(s) == { Str(skill_id[s]) \o <<":">> \o name : name \in LocalNames }

\* C15: whatever sequence of register_intent, disable_intent and
\* enable_intent calls a skill makes, the same Intent object registered twice
\* included, every name published in a register_intent message and every
\* event name bound for an intent is str(skill_id) + ':' + local name, the
\* prefix applied once.
C15_IntentNamesPrefixedOnce ==
    /\ last_op.op \in {"register_intent", "enable_intent"} =>
          \A i \in 1..Len(OfType(trace, "register_intent")) :
              OfType(trace, "register_intent")[i].data.name
                  \in Namespaced(last_op.skill)
    /\ (last_op.op = "register_intent" /\ last_op.desc.kind # "other"
                                       /\ last_op.desc.obj = 0) =>
          /\ Len(OfType(trace, "register_intent")) = 1
          /\ OfType(trace, "register_intent")[1].data.name =
                Str(skill_id[last_op.skill]) \o <<":">> \o last_op.desc.name
    /\ \A s \in Skills : \A sub \in SubscriptionsOf(s) :
          sub[1] # <<"mycroft.stop">> => sub[1] \in Namespaced(s)

\* C20: the settings of a skill are stored by one thread at a time: two
\* deliveries to handlers of the same skill are never both inside
\* settings.store().
C20_StoreIsSerializedPerSkill ==
    \A t, u \in Threads :
        (/\ t # u
         /\ threads[t].pc = "storing"
         /\ threads[u].pc = "storing") =>
            threads[t].wrapper.skill # threads[u].wrapper.skill

\* the scheduling requests a trace published
ScheduleRequests(t) == OfType(t, "mycroft.scheduler.schedule_event")

\* C21: schedule_event and schedule_repeating_event bind the handler under
\* skill_id ':' name before they publish the scheduling request (a call
\* whose binding fails publishes nothing); the request's event field is
\* that name and its repeat field is None for schedule_event and the
\* frequency for schedule_repeating_event.
C21_ScheduleBindsThenPublishes ==
    last_op.op = "schedule_event" =>
        LET s == last_op.skill
            given == IF last_op.name = None
                     THEN <<SkillName(s), last_op.handler.func>>
                     ELSE last_op.name
            unique == Str(skill_id[s]) \o <<":">> \o given
            req == ScheduleRequests(trace)
        IN  \E sub \in subscriptions \ last_op.before.subscriptions :
              /\ subscriptions = last_op.before.subscriptions \cup {sub}
              /\ sub[1] = unique
              /\ sub[2].handler = last_op.handler
              /\ sub[2].skill = s
              /\ ~sub[2].need_self
              /\ IF raised = NoException
                 THEN /\ events[s] = Append(last_op.before.events, sub)
                      /\ Emitted(trace) = req
                      /\ Len(req) = 1
                      /\ req[1].data.event = unique
                      /\ req[1].data.repeat =
                            (IF last_op.api = "schedule_event" THEN None
                             ELSE last_op.frequency)
                 ELSE Emitted(trace) = <<>>

\* C21 witness: a repeating event scheduled under a name of the skill's own
C21_Witness ==
    /\ last_op.op = "schedule_event"
    /\ last_op.api = "schedule_repeating_event"
    /\ <<"a">> = last_op.name
    /\ raised = NoException
    /\ Len(ScheduleRequests(trace)) = 1
    /\ ScheduleRequests(trace)[1].data.repeat = "60 s"

\* C24: shutdown is terminal: whatever a skill calls after its shutdown
\* (add_event, register_intent, register_intent_file, the scheduler calls,
\* shutdown again), it has no subscription on the bus.
C24_NoSubscriptionAfterShutdown ==
    \A s \in Skills : lifecycle[s] = "shutdown" => SubscriptionsOf(s) = {}

\* how many recorded (name, intent) pairs carry a local name
Recorded(list, name) == Cardinality({ i \in 1..Len(list) : list[i][1] = name })

\* a list without its i-th element
Without(list, i) == SubSeq(list, 1, i - 1) \o SubSeq(list, i + 1, Len(list))

\* C22: enable_intent(name) for a recorded local name takes the first pair
\* recorded under it off the list and registers its descriptor again: one
\* register_intent message under skill_id ':' name, as many pairs recorded
\* for the name as before, no new binding.  For a name never recorded it
\* publishes nothing and changes nothing.
C22_EnableIntentReRegisters ==
    last_op.op = "enable_intent" =>
        LET s == last_op.skill
            name == last_op.name
            before == last_op.before.registered_intents
            after == registered_intents[s]
        IN  /\ raised = NoException
            /\ subscriptions = last_op.before.subscriptions
            /\ events[s] = last_op.before.events
            /\ IF Recorded(before, name) = 0
               THEN /\ Emitted(trace) = <<>>
                    /\ after = before
                    /\ intent_heap = last_op.before.intent_heap
               ELSE /\ Len(Emitted(trace)) = 1
                    /\ Emitted(trace)[1].type = "register_intent"
                    /\ Emitted(trace)[1].data.name =
                          Str(skill_id[s]) \o <<":">> \o name
                    /\ Recorded(after, name) = Recorded(before, name)
                    /\ \E i \in 1..Len(before) :
                          /\ before[i][1] = name
                          /\ \A j \in 1..(i - 1) : before[j][1] # name
                          /\ after = Append(Without(before, i), before[i])
                          /\ intent_heap[before[i][2]] =
                                Str(skill_id[s]) \o <<":">> \o name

\* C22 witness: the first of two recorded intents was enabled again
C22_Witness ==
    /\ last_op.op = "enable_intent"
    /\ Len(last_op.before.registered_intents) = 2
    /\ last_op.before.registered_intents[1][1] = last_op.name
    /\ last_op.before.registered_intents[2][1] # last_op.name
    /\ Len(Emitted(trace)) = 1

\* C23: disable_intent(name) publishes exactly one detach_intent message for
\* skill_id ':' name and leaves the recorded intents and the bindings of the
\* skill as they were.
C23_DisableIntentOnlyDetaches ==
    last_op.op = "disable_intent" =>
        LET s == last_op.skill
        IN  /\ raised = NoException
            /\ Len(Emitted(trace)) = 1
            /\ Emitted(trace)[1].type = "detach_intent"
            /\ Emitted(trace)[1].data.intent_name =
                  Str(skill_id[s]) \o <<":">> \o last_op.name
            /\ registered_intents[s] = last_op.before.registered_intents
            /\ events[s] = last_op.before.events
            /\ subscriptions = last_op.before.subscriptions
            /\ intent_heap = last_op.before.intent_heap

\* C23 witness: an intent registered with a handler was disabled; its pair
\* is still recorded and its handler still subscribed
C23_Witness ==
    /\ last_op.op = "disable_intent"
    /\ Recorded(registered_intents[last_op.skill], last_op.name) = 1
    /\ \E sub \in SubscriptionsOf(last_op.skill) :
          sub[1] = Str(skill_id[last_op.skill]) \o <<":">> \o last_op.name

\* C25: in one delivery the body of the wrapped handler runs at most once,
\* whatever its declared arity and need_self, the owner-injected shape whose
\* getargspec is empty and whose body raises TypeError included.
C25_BodyRunsAtMostOnce ==
    last_op.op = "deliver" => Len(Calls(trace)) <= 1

\* C26: when load_skill fails after the skill was bound (load_data_files or
\* initialize raised), the bus holds no subscription made for that skill,
\* its mycroft.stop binding included.
C26_FailedLoadLeavesNoSubscription ==
    \A s \in Skills : lifecycle[s] = "failed" => SubscriptionsOf(s) = {}

\* the bindings of handlers that a module declared with a decorator
DecoratedBindings == { sub \in subscriptions : "module" \in DOMAIN sub[2].handler }

\* C27: handlers collected by the decorators are bound only to the skill
\* whose module declared them, whatever loads came before (failed ones
\* included), and each of them is bound at most once.
C27_DecoratedHandlersStayWithTheirSkill ==
    /\ \A sub \in DecoratedBindings : sub[2].handler.module = sub[2].skill
    /\ \A sub, other \in DecoratedBindings :
          sub[2].handler = other[2].handler => sub = other

\* the number of register_fallback calls the skills have made
RECURSIVE Registrations(_)
Registrations(S) ==
    IF S = {} THEN 0
    ELSE LET s == CHOOSE x \in S : TRUE
         IN  Len(instance_fallback_handlers[s]) + Registrations(S \ {s})

\* C28: no fallback registration is lost under interleaving: once the
\* register_fallback calls of the skills have returned, every handler
\* registered is in the shared registry, each under a priority of its own.
C28_NoRegistrationLost ==
    (\A t \in Threads : threads[t] = IdleFrame) =>
       /\ Cardinality(DOMAIN fallback_handlers) = Registrations(Skills)
       /\ \A s \in Skills : \A i \in 1..Len(instance_fallback_handlers[s]) :
             \E p \in DOMAIN fallback_handlers :
                fallback_handlers[p] = instance_fallback_handlers[s][i]

====
